---------------------------- MODULE Spec2Model ----------------------------
(***************************************************************************)
(* The resumable batch driver of MIMICdataset.py: module-level startup,    *)
(* the os.walk loop of main(), the per-file try/except, the flush          *)
(* (classify, merge, rewrite results.json and failed.txt) and the          *)
(* done_dirs.txt marker, together with the two ways a process can end      *)
(* early: an uncaught exception and an abrupt kill.                        *)
(*                                                                         *)
(* A directory is a number 1..NumDirs in the order os.walk yields it; its  *)
(* .dcm files are 1..dcms[d] in listing order.  A results.json document is *)
(* a function from file keys to records.                                   *)
(***************************************************************************)
EXTENDS Integers, Sequences, FiniteSets, TLC

\* ---- bounds of the model -------------------------------------------------
\* the directories of the input tree, numbered in the order os.walk yields them
Dirs     == {1, 2}
NumDirs  == Cardinality(Dirs)
\* the most .dcm files a directory holds, the largest BATCH_SIZE tried, and
\* the number of times the script is started
MaxFiles == 3
MaxBatch == 2
MaxRuns  == 2

\* ---- values ---------------------------------------------------------------
\* utils.COARSE_VIEWS, the ordered list of view names the classifier's output
\* indexes; two of them are enough to tell labels apart
COARSE_VIEWS == <<"A2C", "A4C">>

EmptyDoc == [k \in {} |-> 0]

Restrict(m, S) == [k \in (DOMAIN m) \cap S |-> m[k]]

Range(s) == {s[k] : k \in 1..Len(s)}

\* what process_single_dicom returns for a readable file: its metadata and
\* its tensor (both determined by the file)
\* meta = {el.name: _safe(el.repval) for el in dcm}: one key per element of
\* the dataset.  A file that gets as far as returning has a pixel element
\* (dcm.pixel_array read it), whose name is "Pixel Data".
ElementNames == {"Patient ID", "Pixel Data"}

MetaOf(d, f) == [name \in ElementNames |-> <<name, d, f>>]
VidOf(d, f)  == <<"vid", d, f>>

\* the frozen classifier: argmax of the logits of a tensor's first frame, a
\* fixed function of the tensor
ArgMax(vid) == ((vid[2] + vid[3]) % Len(COARSE_VIEWS)) + 1

classify_batch(videos) == [k \in 1..Len(videos) |-> COARSE_VIEWS[ArgMax(videos[k])]]

VARIABLES
  \* the input tree and the configuration
  rootExists,    \* MOUNT_ROOT is a directory
  dcms,          \* dcms[d]: number of files of d whose name ends in .dcm
  BATCH_SIZE,    \* 16 in the source; the driver only compares len(vids) with
                 \* it, so every value 1..MaxBatch is tried
  \* the file system
  outRoot,       \* OUTPUT_ROOT exists
  doneExists,    \* done_dirs.txt exists
  doneLines,     \* its lines
  outFolder,     \* outFolder[d]: OUTPUT_ROOT/rel exists
  resultsJson,   \* resultsJson[d]: [exists, doc]
  failedTxt,     \* failedTxt[d]: [exists, lines]
  \* the process
  pc,
  DONE_DIRS,
  cur,           \* the directory the walk is at (0 before the first)
  i,             \* index of the file at hand
  failed, results, metas, vids, names,
  \* observation of the run (no effect on the program)
  runs,          \* processes started so far
  exitHow,       \* how the last process ended
  exitDir,       \* the directory it was in when it ended
  prevHow, prevDir,   \* the same for the process before the running one
  readLog,       \* readLog[d]: files handed to process_single_dicom in this run
  raisedLog,     \* raisedLog[d]: those whose processing raised in this run
  batches,       \* the batches handed to classify_batch in this run
  flushed,       \* flushed[d]: the document of the last completed json.dump
  startResults,  \* resultsJson when the running process started
  startDone      \* doneLines when the running process started

inputVars == <<rootExists, dcms, BATCH_SIZE>>
diskVars  == <<outRoot, doneExists, doneLines, outFolder, resultsJson, failedTxt>>
procVars  == <<pc, DONE_DIRS, cur, i, failed, results, metas, vids, names>>
obsVars   == <<runs, exitHow, exitDir, prevHow, prevDir, readLog, raisedLog,
               batches, flushed, startResults, startDone>>
driverVars == <<inputVars, diskVars, procVars, obsVars>>

\* ---- state of the other parts of the repository ---------------------------
VARIABLES
  \* process_single_dicom: the temporal fit of one recording
  asmSrc,        \* the source frames (frame k is tagged k, from 0)
  asmVid,        \* the time axis of vid
  asmPc,
  \* main: the walk of os.walk(MOUNT_ROOT)
  walkParent,    \* the tree under the root: the parent of each subdirectory
  walkFiles,     \* the names of the files directly in each directory
  walkStack,     \* the directories os.walk has still to list
  walkVisited,   \* the directories os.walk has yielded, in order
  walkHanded,    \* the directories that got past the filter, in order
  \* clean_pixel_data.py: find_and_clean_results_files
  cpus,          \* cpu_count()
  max_workers,   \* the argument: [given |-> FALSE] is None
  batch_size,
  json_files,    \* what glob found
  cleanBatches,  \* batches
  poolSize,      \* the workers of the ProcessPoolExecutor
  task,          \* per batch: "queued", "running", "done" or "collected"
  taskPos,       \* per batch: how many of its files the task has finished
  cleaned,       \* per file: the calls of clean_pixel_data_from_json
  touchedBy,     \* per file: the tasks that read or wrote it
  cleanPc,
  \* clean_pixel_data.py: the script run on a directory with one results.json
  dry_run,       \* args.dry_run
  jsonFile,      \* the file: [parses, data]
  jsonOrig,      \* the file before the first run
  cleanReports,  \* (success, modified) of clean_pixel_data_from_json, per run
  rewrites,      \* how often the file was opened for writing
  \* echo_infer/pipeline.py: a call of _generate_output_filename
  dicom_path,    \* the parts of Path(dicom_path)
  input_dir,     \* the parts of Path(input_dir)
  output_name,   \* what the call returned
  fnPc,
  \* echo_infer/pipeline.py: run
  video_dict,    \* the file paths process_dicoms returned, in dict order
  pipeI,         \* how many of them the loop has handled
  outputDir,     \* the files of the output directory: name -> content
  runResults,    \* results
  pipePc,
  \* echo_infer/cli.py: the run command
  cliArgs,       \* [config_exists, input, output, verbose]
  cfg,           \* the configuration in use
  stdout,        \* what typer.echo printed, in order
  inferenceCalls,\* calls of pipeline.run
  exitCode,      \* -1 while the command runs
  cliPc,
  \* echo_qa/core/processor.py: CaptionProcessor.process_dataset
  capData,       \* the entries of the input file: their number and the one
                 \* (if any) that has no conversations
  capArgs,       \* [batch_size, start_idx, process_all] of the call
  batch_start,
  capFiles,      \* the .json files of output_dir: name -> list of entries
  capRuns,       \* calls of process_dataset that have returned
  capPc

asmVars   == <<asmSrc, asmVid, asmPc>>
walkVars  == <<walkParent, walkFiles, walkStack, walkVisited, walkHanded>>
cleanArgs == <<cpus, max_workers, batch_size, json_files>>
cleanRun  == <<cleanBatches, poolSize, task, taskPos, cleaned, touchedBy, cleanPc>>
cleanVars == <<cleanArgs, cleanRun>>
fileVars  == <<dry_run, jsonFile, jsonOrig, cleanReports, rewrites>>
fnVars    == <<dicom_path, input_dir, output_name, fnPc>>
pipeVars  == <<video_dict, pipeI, outputDir, runResults, pipePc>>
cliVars   == <<cliArgs, cfg, stdout, inferenceCalls, exitCode, cliPc>>
capVars   == <<capData, capArgs, batch_start, capFiles, capRuns, capPc>>
moreVars  == <<fileVars, fnVars, pipeVars, cliVars, capVars>>
baseVars  == <<driverVars, asmVars, walkVars, cleanVars>>
\* what a step of one of these parts leaves alone
restFile  == <<baseVars, fnVars, pipeVars, cliVars, capVars>>
restFn    == <<baseVars, fileVars, pipeVars, cliVars, capVars>>
restPipe  == <<baseVars, fileVars, fnVars, cliVars, capVars>>
restCli   == <<baseVars, fileVars, fnVars, pipeVars, capVars>>
restCap   == <<baseVars, fileVars, fnVars, pipeVars, cliVars>>
auxVars   == <<asmVars, walkVars, cleanVars, moreVars>>
vars    == <<driverVars, auxVars>>

\* the part is not running
AsmIdle == asmSrc = <<>> /\ asmVid = <<>> /\ asmPc = "idle"
WalkIdle ==
  /\ walkParent = <<>> /\ walkFiles = <<>>
  /\ walkStack = <<>> /\ walkVisited = <<>> /\ walkHanded = <<>>
CleanIdle ==
  /\ cpus = 1 /\ max_workers = [given |-> FALSE, n |-> 0] /\ batch_size = 1
  /\ json_files = <<>> /\ cleanBatches = <<>> /\ poolSize = 0
  /\ task = <<>> /\ taskPos = <<>> /\ cleaned = <<>> /\ touchedBy = <<>>
  /\ cleanPc = "idle"
FileIdle ==
  /\ dry_run = FALSE
  /\ jsonFile = [parses |-> FALSE, data |-> <<>>]
  /\ jsonOrig = [parses |-> FALSE, data |-> <<>>]
  /\ cleanReports = <<>>
  /\ rewrites = 0
FnIdle ==
  dicom_path = <<>> /\ input_dir = <<>> /\ output_name = "" /\ fnPc = "idle"
PipeIdle ==
  /\ video_dict = <<>> /\ pipeI = 0 /\ outputDir = <<>> /\ runResults = <<>>
  /\ pipePc = "idle"
CliIdle ==
  /\ cliArgs = <<>> /\ cfg = <<>> /\ stdout = <<>> /\ inferenceCalls = 0
  /\ exitCode = -1 /\ cliPc = "idle"
CapIdle ==
  /\ capData = [len |-> 0, bad |-> {}]
  /\ capArgs = [batch_size |-> 1, start_idx |-> 0, process_all |-> TRUE]
  /\ batch_start = 0 /\ capFiles = <<>> /\ capRuns = 0 /\ capPc = "idle"
MoreIdle == FileIdle /\ FnIdle /\ PipeIdle /\ CliIdle /\ CapIdle
AuxIdle == AsmIdle /\ WalkIdle /\ CleanIdle /\ MoreIdle

NoFile == [exists |-> FALSE, doc |-> EmptyDoc]
NoList == [exists |-> FALSE, lines |-> <<>>]

Init ==
  /\ rootExists \in BOOLEAN
  /\ dcms \in (IF rootExists THEN [Dirs -> 0..MaxFiles] ELSE {[d \in Dirs |-> 0]})
  /\ BATCH_SIZE \in 1..MaxBatch
  /\ outRoot = FALSE
  /\ doneExists = FALSE
  /\ doneLines = <<>>
  /\ outFolder = [d \in Dirs |-> FALSE]
  /\ resultsJson = [d \in Dirs |-> NoFile]
  /\ failedTxt = [d \in Dirs |-> NoList]
  /\ pc = "down"
  /\ DONE_DIRS = {}
  /\ cur = 0
  /\ i = 0
  /\ failed = <<>>
  /\ results = EmptyDoc
  /\ metas = <<>>
  /\ vids = <<>>
  /\ names = <<>>
  /\ runs = 0
  /\ exitHow = "none"
  /\ exitDir = 0
  /\ prevHow = "none"
  /\ prevDir = 0
  /\ readLog = [d \in Dirs |-> {}]
  /\ raisedLog = [d \in Dirs |-> {}]
  /\ batches = <<>>
  /\ flushed = [d \in Dirs |-> EmptyDoc]
  /\ startResults = [d \in Dirs |-> NoFile]
  /\ startDone = <<>>
  /\ AuxIdle

\* the driver is not part of the run: nothing on disk, no process
DriverIdle ==
  /\ rootExists = FALSE
  /\ dcms = [d \in Dirs |-> 0]
  /\ BATCH_SIZE = 1
  /\ outRoot = FALSE
  /\ doneExists = FALSE
  /\ doneLines = <<>>
  /\ outFolder = [d \in Dirs |-> FALSE]
  /\ resultsJson = [d \in Dirs |-> NoFile]
  /\ failedTxt = [d \in Dirs |-> NoList]
  /\ pc = "down"
  /\ DONE_DIRS = {}
  /\ cur = 0
  /\ i = 0
  /\ failed = <<>>
  /\ results = EmptyDoc
  /\ metas = <<>>
  /\ vids = <<>>
  /\ names = <<>>
  /\ runs = 0
  /\ exitHow = "none"
  /\ exitDir = 0
  /\ prevHow = "none"
  /\ prevDir = 0
  /\ readLog = [d \in Dirs |-> {}]
  /\ raisedLog = [d \in Dirs |-> {}]
  /\ batches = <<>>
  /\ flushed = [d \in Dirs |-> EmptyDoc]
  /\ startResults = [d \in Dirs |-> NoFile]
  /\ startDone = <<>>

\* none of the parts of sections 1 to 4 is running
BaseIdle == DriverIdle /\ AsmIdle /\ WalkIdle /\ CleanIdle

\* the memory of a process that has ended
Dead(how, dir) ==
  /\ pc' = "down"
  /\ DONE_DIRS' = {}
  /\ i' = 0
  /\ failed' = <<>>
  /\ results' = EmptyDoc
  /\ metas' = <<>>
  /\ vids' = <<>>
  /\ names' = <<>>
  /\ cur' = 0
  /\ exitHow' = how
  /\ exitDir' = dir

\* ---- module level ---------------------------------------------------------

\* a CONFIG section that empties done_dirs.txt instead of touching it
ConfigTruncates ==
  /\ pc = "down"
  /\ runs < MaxRuns
  /\ runs' = runs + 1
  /\ outRoot' = TRUE
  /\ doneExists' = TRUE
  /\ doneLines' = <<>>
  /\ pc' = "load_model"
  /\ prevHow' = exitHow
  /\ prevDir' = exitDir
  /\ exitHow' = "running"
  /\ exitDir' = 0
  /\ readLog' = [d \in Dirs |-> {}]
  /\ raisedLog' = [d \in Dirs |-> {}]
  /\ batches' = <<>>
  /\ startResults' = resultsJson
  /\ startDone' = <<>>
  /\ UNCHANGED <<auxVars, inputVars, outFolder, resultsJson, failedTxt,
                 DONE_DIRS, cur, i, failed, results, metas, vids, names, flushed>>

\* python MIMICdataset.py: the CONFIG section creates OUTPUT_ROOT and
\* touches done_dirs.txt
Config ==
  /\ pc = "down"
  /\ runs < MaxRuns
  /\ runs' = runs + 1
  /\ outRoot' = TRUE
  /\ doneExists' = TRUE
  /\ pc' = "load_model"
  /\ prevHow' = exitHow
  /\ prevDir' = exitDir
  /\ exitHow' = "running"
  /\ exitDir' = 0
  /\ readLog' = [d \in Dirs |-> {}]
  /\ raisedLog' = [d \in Dirs |-> {}]
  /\ batches' = <<>>
  /\ startResults' = resultsJson
  /\ startDone' = doneLines
  /\ UNCHANGED <<auxVars, inputVars, doneLines, outFolder, resultsJson, failedTxt,
                 DONE_DIRS, cur, i, failed, results, metas, vids, names, flushed>>

\* torch.load / load_state_dict succeed
LoadClassifier ==
  /\ pc = "load_model"
  /\ pc' = "load_done"
  /\ UNCHANGED <<auxVars, inputVars, diskVars, DONE_DIRS, cur, i, failed, results,
                 metas, vids, names, obsVars>>

\* torch.load / load_state_dict raise: the interpreter exits
LoadClassifierRaises ==
  /\ pc = "load_model"
  /\ Dead("load_error", 0)
  /\ UNCHANGED <<auxVars, inputVars, diskVars, runs, prevHow, prevDir, readLog,
                 raisedLog, batches, flushed, startResults, startDone>>

\* a start that does not read done_dirs.txt
LoadedDoneDirsNone == {}

\* DONE_DIRS.update(line.strip() for line in f if line.strip())
LoadedDoneDirs == IF doneExists THEN Range(doneLines) ELSE {}

\* section 3: DONE_DIRS is read from done_dirs.txt; then main() is called
LoadDoneDirs ==
  /\ pc = "load_done"
  /\ DONE_DIRS' = LoadedDoneDirs
  /\ pc' = "walk"
  /\ cur' = 0
  /\ UNCHANGED <<auxVars, inputVars, diskVars, i, failed, results, metas, vids, names,
                 obsVars>>

\* ---- main(): the walk ----------------------------------------------------

\* the directory os.walk yields next
NextDir == cur + 1

\* the walk without the DONE_DIRS test
AlreadyDoneNever(d) == FALSE

\* rel in DONE_DIRS
AlreadyDone(d) == d \in DONE_DIRS

\* the walk without the results.json test
HasResultsNever(d) == FALSE

\* out_file.exists()
HasResults(d) == resultsJson[d].exists

\* the walk is over (os.walk of a root that is no directory yields nothing):
\* main() prints the summary and returns
WalkEnd ==
  /\ pc = "walk"
  /\ cur = NumDirs \/ ~rootExists
  /\ Dead("finished", 0)
  /\ UNCHANGED <<auxVars, inputVars, diskVars, runs, prevHow, prevDir, readLog,
                 raisedLog, batches, flushed, startResults, startDone>>

\* if not dcms: continue
WalkNoDcms ==
  /\ pc = "walk"
  /\ rootExists
  /\ cur < NumDirs
  /\ dcms[NextDir] = 0
  /\ cur' = NextDir
  /\ UNCHANGED <<auxVars, inputVars, diskVars, pc, DONE_DIRS, i, failed, results,
                 metas, vids, names, obsVars>>

\* if rel in DONE_DIRS: continue
WalkSkipDone ==
  /\ pc = "walk"
  /\ cur < NumDirs
  /\ dcms[NextDir] > 0
  /\ AlreadyDone(NextDir)
  /\ cur' = NextDir
  /\ UNCHANGED <<auxVars, inputVars, diskVars, pc, DONE_DIRS, i, failed, results,
                 metas, vids, names, obsVars>>

\* out_folder.mkdir(); results.json is there: the directory is appended to
\* done_dirs.txt and skipped
WalkSkipExisting ==
  /\ pc = "walk"
  /\ cur < NumDirs
  /\ dcms[NextDir] > 0
  /\ ~AlreadyDone(NextDir)
  /\ HasResults(NextDir)
  /\ outFolder' = [outFolder EXCEPT ![NextDir] = TRUE]
  /\ doneLines' = Append(doneLines, NextDir)
  /\ DONE_DIRS' = DONE_DIRS \cup {NextDir}
  /\ cur' = NextDir
  /\ UNCHANGED <<auxVars, inputVars, outRoot, doneExists, resultsJson, failedTxt, pc,
                 i, failed, results, metas, vids, names, obsVars>>

\* out_folder.mkdir(); no results.json: failed, results = [], {} and the
\* buffers are emptied
WalkBegin ==
  /\ pc = "walk"
  /\ cur < NumDirs
  /\ dcms[NextDir] > 0
  /\ ~AlreadyDone(NextDir)
  /\ ~HasResults(NextDir)
  /\ outFolder' = [outFolder EXCEPT ![NextDir] = TRUE]
  /\ cur' = NextDir
  /\ failed' = <<>>
  /\ results' = EmptyDoc
  /\ metas' = <<>>
  /\ vids' = <<>>
  /\ names' = <<>>
  /\ i' = 1
  /\ pc' = "file"
  /\ UNCHANGED <<auxVars, inputVars, outRoot, doneExists, doneLines, resultsJson,
                 failedTxt, DONE_DIRS, obsVars>>

\* out_folder.mkdir() raises: nothing catches it
MkdirRaises ==
  /\ pc = "walk"
  /\ cur < NumDirs
  /\ dcms[NextDir] > 0
  /\ ~AlreadyDone(NextDir)
  /\ Dead("io_error", NextDir)
  /\ UNCHANGED <<auxVars, inputVars, diskVars, runs, prevHow, prevDir, readLog,
                 raisedLog, batches, flushed, startResults, startDone>>

\* ---- main(): one directory ----------------------------------------------

\* the flush condition without its "or at end" half
ShouldFlushFullOnly(n, last_item) == n >= BATCH_SIZE

\* a flush that waits for one tensor more than BATCH_SIZE
ShouldFlushLate(n, last_item) == n > BATCH_SIZE \/ (last_item /\ n > 0)

\* len(vids) >= BATCH_SIZE or (last_item and vids)
ShouldFlush(n, last_item) == n >= BATCH_SIZE \/ (last_item /\ n > 0)

\* where the for loop goes after file idx of directory d
AfterItemPc(d, idx) == IF idx = dcms[d] THEN "mark" ELSE "file"
AfterItemI(d, idx)  == IF idx = dcms[d] THEN idx ELSE idx + 1

\* process_single_dicom returns: the file joins the buffer
ProcessFileOk ==
  /\ pc = "file"
  /\ metas' = Append(metas, MetaOf(cur, i))
  /\ vids' = Append(vids, VidOf(cur, i))
  /\ names' = Append(names, i)
  /\ readLog' = [readLog EXCEPT ![cur] = @ \cup {i}]
  /\ IF ShouldFlush(Len(vids'), i = dcms[cur])
       THEN pc' = "classify" /\ i' = i
       ELSE pc' = AfterItemPc(cur, i) /\ i' = AfterItemI(cur, i)
  /\ UNCHANGED <<auxVars, inputVars, diskVars, DONE_DIRS, cur, failed, results, runs,
                 exitHow, exitDir, prevHow, prevDir, raisedLog, batches,
                 flushed, startResults, startDone>>

\* process_single_dicom raises and nothing catches it
ProcessFileRaisesUncaught ==
  /\ pc = "file"
  /\ readLog' = [readLog EXCEPT ![cur] = @ \cup {i}]
  /\ raisedLog' = [raisedLog EXCEPT ![cur] = @ \cup {i}]
  /\ Dead("file_error", cur)
  /\ UNCHANGED <<auxVars, inputVars, diskVars, runs, prevHow, prevDir, batches,
                 flushed, startResults, startDone>>

\* process_single_dicom raises, with names.append(name) outside the try
ProcessFileRaisesNamed ==
  /\ pc = "file"
  /\ failed' = Append(failed, i)
  /\ names' = Append(names, i)
  /\ readLog' = [readLog EXCEPT ![cur] = @ \cup {i}]
  /\ raisedLog' = [raisedLog EXCEPT ![cur] = @ \cup {i}]
  /\ IF ShouldFlush(Len(vids), i = dcms[cur])
       THEN pc' = "classify" /\ i' = i
       ELSE pc' = AfterItemPc(cur, i) /\ i' = AfterItemI(cur, i)
  /\ UNCHANGED <<auxVars, inputVars, diskVars, DONE_DIRS, cur, results, metas, vids,
                 runs, exitHow, exitDir, prevHow, prevDir, batches,
                 flushed, startResults, startDone>>

\* process_single_dicom raises: except Exception appends the path to failed
ProcessFileRaises ==
  /\ pc = "file"
  /\ failed' = Append(failed, i)
  /\ readLog' = [readLog EXCEPT ![cur] = @ \cup {i}]
  /\ raisedLog' = [raisedLog EXCEPT ![cur] = @ \cup {i}]
  /\ IF ShouldFlush(Len(vids), i = dcms[cur])
       THEN pc' = "classify" /\ i' = i
       ELSE pc' = AfterItemPc(cur, i) /\ i' = AfterItemI(cur, i)
  /\ UNCHANGED <<auxVars, inputVars, diskVars, DONE_DIRS, cur, results, metas, vids,
                 names, runs, exitHow, exitDir, prevHow, prevDir, batches,
                 flushed, startResults, startDone>>

\* a flush that starts from an empty map instead of results
MergeOnlyBatch(res, nms, mds, vws) ==
  [k \in Range(nms) |->
     LET j == CHOOSE h \in 1..Len(nms) : nms[h] = k
     IN [metadata |-> mds[j], predicted_view |-> vws[j]]]

\* for nm, md, vw in zip(names, metas, views): results[key] = {...}
Merge(res, nms, mds, vws) ==
  LET n == IF Len(nms) < Len(mds) THEN Len(nms) ELSE Len(mds)
      m == IF n < Len(vws) THEN n ELSE Len(vws)
      last(k) == CHOOSE j \in 1..m : nms[j] = k /\ \A h \in (j+1)..m : nms[h] # k
  IN [k \in (DOMAIN res) \cup {nms[j] : j \in 1..m} |->
        IF k \in {nms[j] : j \in 1..m}
          THEN [metadata |-> mds[last(k)], predicted_view |-> vws[last(k)]]
          ELSE res[k]]

\* torch.stack, classify_batch and the merge into results
Classify ==
  /\ pc = "classify"
  /\ results' = Merge(results, names, metas, classify_batch(vids))
  /\ batches' = Append(batches, vids)
  /\ pc' = "open_json"
  /\ UNCHANGED <<auxVars, inputVars, diskVars, DONE_DIRS, cur, i, failed, metas, vids,
                 names, runs, exitHow, exitDir, prevHow, prevDir, readLog,
                 raisedLog, flushed, startResults, startDone>>

\* out_file.open("w"): the file is created or truncated
OpenJson ==
  /\ pc = "open_json"
  /\ resultsJson' = [resultsJson EXCEPT ![cur] = [exists |-> TRUE, doc |-> EmptyDoc]]
  /\ pc' = "dump_json"
  /\ UNCHANGED <<auxVars, inputVars, outRoot, doneExists, doneLines, outFolder,
                 failedTxt, DONE_DIRS, cur, i, failed, results, metas, vids,
                 names, obsVars>>

\* json.dump(results, f) and the close of the file
DumpJson ==
  /\ pc = "dump_json"
  /\ resultsJson' = [resultsJson EXCEPT ![cur] = [exists |-> TRUE, doc |-> results]]
  /\ flushed' = [flushed EXCEPT ![cur] = results]
  /\ pc' = "write_failed"
  /\ UNCHANGED <<auxVars, inputVars, outRoot, doneExists, doneLines, outFolder,
                 failedTxt, DONE_DIRS, cur, i, failed, results, metas, vids,
                 names, runs, exitHow, exitDir, prevHow, prevDir, readLog,
                 raisedLog, batches, startResults, startDone>>

\* failed.txt is rewritten from failed, and the buffers are not cleared
WriteFailedKeepsBuffers ==
  /\ pc = "write_failed"
  /\ failedTxt' = [failedTxt EXCEPT ![cur] = [exists |-> TRUE, lines |-> failed]]
  /\ pc' = AfterItemPc(cur, i)
  /\ i' = AfterItemI(cur, i)
  /\ UNCHANGED <<auxVars, inputVars, outRoot, doneExists, doneLines, outFolder,
                 resultsJson, DONE_DIRS, cur, failed, results, metas, vids,
                 names, obsVars>>

\* failed.txt is rewritten from failed; metas, vids and names are cleared
WriteFailed ==
  /\ pc = "write_failed"
  /\ failedTxt' = [failedTxt EXCEPT ![cur] = [exists |-> TRUE, lines |-> failed]]
  /\ metas' = <<>>
  /\ vids' = <<>>
  /\ names' = <<>>
  /\ pc' = AfterItemPc(cur, i)
  /\ i' = AfterItemI(cur, i)
  /\ UNCHANGED <<auxVars, inputVars, outRoot, doneExists, doneLines, outFolder,
                 resultsJson, DONE_DIRS, cur, failed, results, obsVars>>

\* the directory is appended to done_dirs.txt and added to DONE_DIRS
Mark ==
  /\ pc = "mark"
  /\ doneLines' = Append(doneLines, cur)
  /\ DONE_DIRS' = DONE_DIRS \cup {cur}
  /\ pc' = "walk"
  /\ UNCHANGED <<auxVars, inputVars, outRoot, doneExists, outFolder, resultsJson,
                 failedTxt, cur, i, failed, results, metas, vids, names,
                 obsVars>>

\* ---- the ways a process ends early ------------------------------------------

\* the first n keys of a document in the order json.dump writes them
Prefix(doc, n) == Restrict(doc, 1..n)

\* torch.stack or the classifier raises
ClassifyRaises ==
  /\ pc = "classify"
  /\ Dead("classify_error", cur)
  /\ UNCHANGED <<auxVars, inputVars, diskVars, runs, prevHow, prevDir, readLog,
                 raisedLog, batches, flushed, startResults, startDone>>

\* out_file.open("w") raises: results.json is as it was
OpenJsonRaises ==
  /\ pc = "open_json"
  /\ Dead("io_error", cur)
  /\ UNCHANGED <<auxVars, inputVars, diskVars, runs, prevHow, prevDir, readLog,
                 raisedLog, batches, flushed, startResults, startDone>>

\* a write of json.dump raises: the truncated file holds what was written
DumpJsonRaises ==
  /\ pc = "dump_json"
  /\ \E n \in 0..(MaxFiles - 1) :
       resultsJson' = [resultsJson EXCEPT ![cur].doc = Prefix(results, n)]
  /\ Dead("io_error", cur)
  /\ UNCHANGED <<auxVars, inputVars, outRoot, doneExists, doneLines, outFolder,
                 failedTxt, runs, prevHow, prevDir, readLog, raisedLog,
                 batches, flushed, startResults, startDone>>

\* failed_file.open("w") raises: failed.txt is as it was
WriteFailedRaises ==
  /\ pc = "write_failed"
  /\ Dead("io_error", cur)
  /\ UNCHANGED <<auxVars, inputVars, diskVars, runs, prevHow, prevDir, readLog,
                 raisedLog, batches, flushed, startResults, startDone>>

\* DONE_DIRS_FILE.open("a") raises after the loop
MarkRaises ==
  /\ pc = "mark"
  /\ Dead("io_error", cur)
  /\ UNCHANGED <<auxVars, inputVars, diskVars, runs, prevHow, prevDir, readLog,
                 raisedLog, batches, flushed, startResults, startDone>>

\* a completed flush of the directory at hand is behind the process and
\* nothing is buffered; at "file" some files of the directory are still to
\* be read, at "mark" none
AfterFlush ==
  /\ pc \in {"file", "mark"}
  /\ names = <<>>
  /\ results # EmptyDoc
  /\ resultsJson[cur] = [exists |-> TRUE, doc |-> results]

\* the process is killed; killed while json.dump writes, the file holds what
\* was written
Kill ==
  /\ pc # "down"
  /\ IF pc = "dump_json"
       THEN \E n \in 0..(MaxFiles - 1) :
              resultsJson' = [resultsJson EXCEPT ![cur].doc = Prefix(results, n)]
       ELSE resultsJson' = resultsJson
  /\ Dead(IF AfterFlush
            THEN (IF pc = "file" THEN "killed_partial" ELSE "killed_final")
            ELSE "killed", cur)
  /\ UNCHANGED <<auxVars, inputVars, outRoot, doneExists, doneLines, outFolder,
                 failedTxt, runs, prevHow, prevDir, readLog, raisedLog,
                 batches, flushed, startResults, startDone>>

Next ==
  \/ Config \/ LoadClassifier \/ LoadClassifierRaises \/ LoadDoneDirs
  \/ WalkEnd \/ WalkNoDcms \/ WalkSkipDone \/ WalkSkipExisting \/ WalkBegin
  \/ ProcessFileOk \/ ProcessFileRaises
  \/ Classify \/ OpenJson \/ DumpJson \/ WriteFailed \/ Mark
  \/ MkdirRaises \/ ClassifyRaises \/ OpenJsonRaises \/ DumpJsonRaises
  \/ WriteFailedRaises \/ MarkRaises
  \/ Kill

Spec == Init /\ [][Next]_vars


\* ---- the properties --------------------------------------------------------

FilesOf(d) == 1..dcms[d]

\* the directories appended to done_dirs.txt by the running (or last) process
MarkedNow == Range(doneLines) \ Range(startDone)

\* the files of directory d whose tensor went to the classifier in this run
ClassifiedNow(d) ==
  {v[3] : v \in {w \in UNION {Range(batches[n]) : n \in 1..Len(batches)} : w[2] = d}}

\* document a holds every record of document b
Contains(a, b) == \A k \in DOMAIN b : k \in DOMAIN a /\ a[k] = b[k]

IsSuccess(r) == DOMAIN r = {"metadata", "predicted_view"}
IsError(r)   == DOMAIN r = {"error", "trace"}

\* C1: whenever a line is appended to done_dirs.txt, the buffer (vids, metas,
\* names) is empty and every record computed for that directory in this run
\* is in its results.json on disk: after the loop these are the records of
\* results, on the results.json-exists path no tensor of the directory was
\* classified in this run.
C1_MarkerAfterFinalFlush ==
  [][doneLines' # doneLines =>
       LET d == doneLines'[Len(doneLines')] IN
         /\ vids = <<>> /\ metas = <<>> /\ names = <<>>
         /\ IF pc = "mark"
              THEN /\ d = cur
                   /\ ClassifiedNow(d) = DOMAIN results
                   /\ Contains(resultsJson[d].doc, results)
              ELSE ClassifiedNow(d) = {}]_vars

\* a directory has just been marked after two flushes
C1_Witness ==
  /\ pc = "walk"
  /\ cur \in MarkedNow
  /\ Len(batches) >= 2
  /\ Cardinality(ClassifiedNow(cur)) >= 2
  /\ resultsJson[cur].doc = results

\* C2: a file whose record was in a completed write of results.json is never
\* handed to process_single_dicom again, in the restarted run or any later
\* one.
C2_FlushedNotReprocessed ==
  [][\A d \in Dirs : (readLog'[d] \ readLog[d]) \cap DOMAIN flushed[d] = {}]_vars

\* the process was killed right after a flush, and the restarted run has
\* gone past that directory without reading any of its files
C2_Witness ==
  /\ prevHow \in {"killed_partial", "killed_final"}
  /\ pc = "walk"
  /\ cur = prevDir
  /\ startResults[cur].doc # EmptyDoc
  /\ readLog[cur] = {}

\* C3: killed right after a flush that left files of the directory unread,
\* the restarted run resumes the directory: when it has finished, every
\* .dcm file of the directory is keyed in results.json or listed in
\* failed.txt.
C3_ResumedDirectoryCompletes ==
  (prevHow = "killed_partial" /\ pc = "down" /\ exitHow = "finished") =>
     \A f \in FilesOf(prevDir) :
        \/ f \in DOMAIN resultsJson[prevDir].doc
        \/ f \in Range(failedTxt[prevDir].lines)

C5_FlushedSurvivesCrash ==
  (pc = "down" /\ exitHow \in {"killed", "killed_partial", "killed_final"}) =>
     \A d \in Dirs : Contains(resultsJson[d].doc, flushed[d])

\* C6: a file whose processing raises is appended to failed and the loop
\* goes on with the same directory; when the loop is over every file of the
\* directory has been attempted and failed holds those that raised.
C6_FileErrorIsolated ==
  /\ [][(pc = "file" /\ raisedLog'[cur] # raisedLog[cur]) =>
          /\ pc' \in {"file", "classify", "mark"}
          /\ cur' = cur
          /\ i \in Range(failed')]_vars
  /\ [](pc = "mark" =>
          /\ readLog[cur] = FilesOf(cur)
          /\ Range(failed) = raisedLog[cur])

\* a directory has been marked in which a file raised and a later file was
\* read and classified
C6_Witness ==
  /\ pc = "walk"
  /\ cur \in MarkedNow
  /\ \E f \in raisedLog[cur] : \E g \in ClassifiedNow(cur) : g > f

\* C7: failed.txt of a directory marked in this run lists every file of
\* the directory whose processing raised.
C7_FailedTxtComplete ==
  \A d \in MarkedNow :
     raisedLog[d] # {} =>
        /\ failedTxt[d].exists
        /\ raisedLog[d] \subseteq Range(failedTxt[d].lines)

\* C8: results.json of a directory processed and marked in this run holds a
\* record for every file: a success record for a classified file, an error
\* record for a file that raised.
C8_OneRecordPerFile ==
  \A d \in MarkedNow :
     readLog[d] = FilesOf(d) =>
        \A f \in FilesOf(d) :
           /\ f \in DOMAIN resultsJson[d].doc
           /\ IF f \in raisedLog[d]
                THEN IsError(resultsJson[d].doc[f])
                ELSE IsSuccess(resultsJson[d].doc[f])

\* a later directory still waits for processing
Pending(after) ==
  \E d \in Dirs :
     d > after /\ dcms[d] > 0 /\ d \notin Range(doneLines) /\ ~resultsJson[d].exists

\* C9: the run does not end on a directory-level failure while a later
\* directory is still to be processed.
C9_TraversalContinues ==
  ~(pc = "down" /\ exitHow \in {"io_error", "classify_error"} /\ Pending(exitDir))

\* C10: a directory in which the previous run hit an I/O error is not in
\* done_dirs.txt when the next run starts, and a next run that ends normally
\* has processed all of its files.
C10_RetriedInFull ==
  prevHow = "io_error" =>
     /\ prevDir \notin Range(startDone)
     /\ (pc = "down" /\ exitHow = "finished") => readLog[prevDir] = FilesOf(prevDir)

\* C11: when the load of the classifier fails in the first start, nothing
\* has been created: no OUTPUT_ROOT, no done_dirs.txt, no output folder, no
\* results.json and no failed.txt.
C11_LoadFailureLeavesNothing ==
  (pc = "down" /\ exitHow = "load_error" /\ runs = 1) =>
     /\ ~outRoot
     /\ ~doneExists
     /\ \A d \in Dirs : ~outFolder[d] /\ ~resultsJson[d].exists /\ ~failedTxt[d].exists

\* C12: with no input root the run does not end normally.
C12_MissingRootAborts ==
  ~(pc = "down" /\ exitHow = "finished" /\ ~rootExists)

\* C13: no record of a results.json on disk has a "Pixel Data" key in its
\* metadata.
C13_NoPixelDataKey ==
  \A d \in Dirs : \A k \in DOMAIN resultsJson[d].doc :
     "Pixel Data" \notin DOMAIN resultsJson[d].doc[k].metadata

\* the process is inside the loop over the files of directory cur
InDirectory == pc \in {"file", "classify", "open_json", "dump_json", "write_failed", "mark"}

\* the record of file f of directory d when its tensor is classified alone
OwnRecord(d, f) ==
  [metadata |-> MetaOf(d, f), predicted_view |-> classify_batch(<<VidOf(d, f)>>)[1]]

\* C16: names, metas and vids stay aligned, and every record, in results
\* and in every results.json on disk, holds under a file's key that file's
\* own metadata and the label of that file's own tensor.
C16_RecordsAligned ==
  /\ InDirectory =>
       /\ Len(names) = Len(metas) /\ Len(metas) = Len(vids)
       /\ \A j \in 1..Len(names) :
             metas[j] = MetaOf(cur, names[j]) /\ vids[j] = VidOf(cur, names[j])
       /\ \A k \in DOMAIN results : results[k] = OwnRecord(cur, k)
  /\ \A d \in Dirs : \A k \in DOMAIN resultsJson[d].doc :
       resultsJson[d].doc[k] = OwnRecord(d, k)

\* a batch of two files with a failed file between them has been flushed
C16_Witness ==
  \E d \in Dirs :
     /\ 2 \in raisedLog[d]
     /\ \E n \in 1..Len(batches) : batches[n] = <<VidOf(d, 1), VidOf(d, 3)>>
     /\ DOMAIN resultsJson[d].doc = {1, 3}

\* C17: the result map of a directory processed and marked in this run is,
\* for every BATCH_SIZE, the map obtained by classifying each of its
\* assembled files alone.
C17_BatchInvariance ==
  \A d \in MarkedNow :
     readLog[d] = FilesOf(d) =>
        resultsJson[d].doc = [f \in FilesOf(d) \ raisedLog[d] |-> OwnRecord(d, f)]

\* three files of a directory went through two batches (of two and of one)
C17_Witness ==
  \E d \in MarkedNow :
     /\ BATCH_SIZE = 2
     /\ ClassifiedNow(d) = {1, 2, 3}
     /\ DOMAIN resultsJson[d].doc = {1, 2, 3}

FileHandled == pc = "file" /\ pc' # "down"

\* C25: after a file has been handled the classifier is the next step
\* exactly when the buffer holds BATCH_SIZE tensors, or the file was the last
\* of the directory and the buffer is not empty; the classifier is reached in
\* no other way, and every batch it gets holds 1 to BATCH_SIZE tensors.
C25_FlushExactlyWhenDue ==
  [][/\ FileHandled =>
          (pc' = "classify" <=>
              \/ Len(vids') = BATCH_SIZE
              \/ (i = dcms[cur] /\ vids' # <<>>))
     /\ (pc # "classify" /\ pc' = "classify") => pc = "file"
     /\ Len(vids') <= BATCH_SIZE
     /\ \A n \in 1..Len(batches') :
          Len(batches'[n]) >= 1 /\ Len(batches'[n]) <= BATCH_SIZE]_vars

\* with BATCH_SIZE 2 and three files, a full batch and a batch of the last
\* file went to the classifier
C25_Witness ==
  /\ BATCH_SIZE = 2
  /\ \E d \in Dirs :
       /\ dcms[d] = 3
       /\ \E n \in 1..Len(batches) :
            /\ n < Len(batches)
            /\ batches[n] = <<VidOf(d, 1), VidOf(d, 2)>>
            /\ batches[n + 1] = <<VidOf(d, 3)>>

\* the places of the tensor of file f of directory d in the batches
PlacesOf(d, f) ==
  {<<n, j>> \in (1..Len(batches)) \X (1..BATCH_SIZE) :
      j <= Len(batches[n]) /\ batches[n][j] = VidOf(d, f)}

\* C26: no tensor is in the batches of a run twice; when the files of a
\* directory are all consumed the buffer is empty and every file of it that
\* was assembled went to the classifier exactly once, and the same holds of
\* every directory marked in the run.
C26_ClassifiedExactlyOnce ==
  /\ \A d \in Dirs : \A f \in FilesOf(d) : Cardinality(PlacesOf(d, f)) <= 1
  /\ pc = "mark" =>
        /\ vids = <<>> /\ metas = <<>> /\ names = <<>>
        /\ \A f \in readLog[cur] \ raisedLog[cur] : Cardinality(PlacesOf(cur, f)) = 1
  /\ \A d \in MarkedNow :
        \A f \in readLog[d] \ raisedLog[d] : Cardinality(PlacesOf(d, f)) = 1

\* a directory of three files, the second of which failed, is at its end:
\* files 1 and 3 went to the classifier once each and the buffer is empty
C26_Witness ==
  /\ pc = "mark"
  /\ readLog[cur] = {1, 2, 3} /\ raisedLog[cur] = {2}
  /\ Cardinality(PlacesOf(cur, 1)) = 1 /\ Cardinality(PlacesOf(cur, 3)) = 1
  /\ vids = <<>>

FRAMES_TAKE  == 32
FRAME_STRIDE == 2

\* the longest recording tried
MaxLen == 40

\* a frame of torch.zeros
ZeroFrame == <<"zeros">>

\* crop_and_scale of every frame, float().permute and sub_(MEAN).div_(STD):
\* frame k of vid is the normalized source frame k
Normalized(src) == [k \in 1..Len(src) |-> <<"normalized", src[k]>>]

\* the padding put in front of the recording
PadFront(v) ==
  IF Len(v) < FRAMES_TAKE
    THEN [k \in 1..(FRAMES_TAKE - Len(v)) |-> ZeroFrame] \o v
    ELSE v

\* if vid.shape[1] < FRAMES_TAKE: vid = torch.cat((vid, pad), 1)
PadTail(v) ==
  IF Len(v) < FRAMES_TAKE
    THEN v \o [k \in 1..(FRAMES_TAKE - Len(v)) |-> ZeroFrame]
    ELSE v

\* the positions (from 0) v[start:stop:step] selects, for 0 <= start, stop and step > 0
SliceIndices(len, start, stop, step) ==
  LET end == IF stop < len THEN stop ELSE len
  IN {n \in 0..(len - 1) : n >= start /\ n < end /\ (n - start) % step = 0}

\* v[start:stop:step]
StridedSlice(v, start, stop, step) ==
  LET idx == SliceIndices(Len(v), start, stop, step)
  IN [k \in 1..Cardinality(idx) |-> v[start + (k - 1) * step + 1]]

\* a slice that runs to the end of the recording: vid[:, start::FRAME_STRIDE]
TemporalSliceNoStop(v) == StridedSlice(v, 0, Len(v), FRAME_STRIDE)

\* start = 0; vid = vid[:, start : start + FRAMES_TAKE : FRAME_STRIDE]
TemporalSlice(v) == StridedSlice(v, 0, 0 + FRAMES_TAKE, FRAME_STRIDE)

InitAssemble ==
  /\ DriverIdle
  /\ WalkIdle
  /\ CleanIdle
  /\ MoreIdle
  /\ \E len \in 0..MaxLen : asmSrc = [k \in 1..len |-> k - 1]
  /\ asmVid = <<>>
  /\ asmPc = "read"

AsmNormalize ==
  /\ asmPc = "read"
  /\ asmVid' = Normalized(asmSrc)
  /\ asmPc' = "normalized"
  /\ UNCHANGED <<driverVars, walkVars, cleanVars, moreVars, asmSrc>>

AsmPad ==
  /\ asmPc = "normalized"
  /\ asmVid' = PadTail(asmVid)
  /\ asmPc' = "padded"
  /\ UNCHANGED <<driverVars, walkVars, cleanVars, moreVars, asmSrc>>

AsmSlice ==
  /\ asmPc = "padded"
  /\ asmVid' = TemporalSlice(asmVid)
  /\ asmPc' = "returned"
  /\ UNCHANGED <<driverVars, walkVars, cleanVars, moreVars, asmSrc>>

NextAssemble == AsmNormalize \/ AsmPad \/ AsmSlice

SpecAssemble == InitAssemble /\ [][NextAssemble]_vars

\* C14: a recording of fewer than FRAMES_TAKE frames is returned with
\* FRAMES_TAKE / FRAME_STRIDE frames; frame t is the normalized source frame
\* FRAME_STRIDE * t while that lies in the recording, and a frame of zeros
\* from t = ceil(L / FRAME_STRIDE) on.
C14_ShortRecordingPadded ==
  (asmPc = "returned" /\ Len(asmSrc) < FRAMES_TAKE) =>
     /\ Len(asmVid) = FRAMES_TAKE \div FRAME_STRIDE
     /\ \A t \in 0..(Len(asmVid) - 1) :
          /\ FRAME_STRIDE * t < Len(asmSrc) =>
                asmVid[t + 1] = <<"normalized", FRAME_STRIDE * t>>
          /\ t >= (Len(asmSrc) + FRAME_STRIDE - 1) \div FRAME_STRIDE =>
                asmVid[t + 1] = ZeroFrame

\* a recording of five frames: frames 0, 2 and 4, then zeros
C14_Witness ==
  /\ asmPc = "returned"
  /\ Len(asmSrc) = 5
  /\ asmVid[3] = <<"normalized", 4>>
  /\ asmVid[4] = ZeroFrame

\* C15: a recording of FRAMES_TAKE frames or more is returned as the source
\* frames 0, FRAME_STRIDE, 2 * FRAME_STRIDE, ... below FRAMES_TAKE, in that
\* order and nothing else.
C15_LongRecordingStrided ==
  (asmPc = "returned" /\ Len(asmSrc) >= FRAMES_TAKE) =>
     asmVid = [k \in 1..(FRAMES_TAKE \div FRAME_STRIDE) |->
                 <<"normalized", FRAME_STRIDE * (k - 1)>>]

\* a recording of 40 frames came back with 16, the last of them frame 30
C15_Witness ==
  /\ asmPc = "returned"
  /\ Len(asmSrc) = 40
  /\ Len(asmVid) = 16
  /\ asmVid[16] = <<"normalized", 30>>

\* ---- main: the walk over MOUNT_ROOT ----------------------------------------

\* the number of subdirectories under the root
MaxSubdirs == 3

\* the root is directory 0
TreeDirs == 0..MaxSubdirs

\* file names are sequences of characters
UpperOf == [c \in {"d", "c", "m", "x"} |->
              CASE c = "d" -> "D" [] c = "c" -> "C" [] c = "m" -> "M" [] c = "x" -> "X"]

\* str.lower() of one character
LowerChar(c) ==
  IF \E l \in DOMAIN UpperOf : UpperOf[l] = c
    THEN CHOOSE l \in DOMAIN UpperOf : UpperOf[l] = c
    ELSE c

\* f.lower()
Lower(f) == [k \in 1..Len(f) |-> LowerChar(f[k])]

\* f.endswith(suffix)
EndsWith(f, suffix) ==
  /\ Len(f) >= Len(suffix)
  /\ SubSeq(f, Len(f) - Len(suffix) + 1, Len(f)) = suffix

\* the filter with no lower(): f.endswith(".dcm")
IsDcmExact(f) == EndsWith(f, <<".", "d", "c", "m">>)

\* f.lower().endswith(".dcm")
IsDcm(f) == EndsWith(Lower(f), <<".", "d", "c", "m">>)

\* the contents a directory may have
FileSets ==
  { {},
    {<<"x", ".", "d", "c", "m">>},
    {<<"X", ".", "D", "C", "M">>, <<"x", ".", "t", "x", "t">>},
    {<<"x", ".", "D", "c", "m">>},
    {<<"d", "c", "m">>, <<"x", ".", "d", "c", "m", "x">>, <<"x", ".", "d", "c">>} }

\* the subdirectories of directory d, in the order os.walk lists them
Children(d) ==
  LET kids == {c \in DOMAIN walkParent : walkParent[c] = d}
      Sorted[S \in SUBSET kids] ==
        IF S = {} THEN <<>>
        ELSE LET c == CHOOSE x \in S : \A y \in S : x <= y
             IN <<c>> \o Sorted[S \ {c}]
  IN Sorted[kids]

InitWalk ==
  /\ DriverIdle
  /\ AsmIdle
  /\ CleanIdle
  /\ MoreIdle
  /\ walkParent \in {p \in [1..MaxSubdirs -> TreeDirs] : \A c \in 1..MaxSubdirs : p[c] < c}
  /\ walkFiles \in [TreeDirs -> FileSets]
  /\ walkStack = <<0>>
  /\ walkVisited = <<>>
  /\ walkHanded = <<>>

\* os.walk yields the next directory and then queues its subdirectories,
\* whatever the loop body did with the directory
WalkYield(handed) ==
  /\ walkStack # <<>>
  /\ LET root == Head(walkStack)
     IN /\ walkVisited' = Append(walkVisited, root)
        /\ walkHanded' = IF handed THEN Append(walkHanded, root) ELSE walkHanded
        /\ walkStack' = Children(root) \o Tail(walkStack)
  /\ UNCHANGED <<driverVars, asmVars, cleanVars, moreVars, walkParent, walkFiles>>

\* a skipped directory whose subdirectories are dropped from the walk
WalkContinuePruned ==
  /\ walkStack # <<>>
  /\ {f \in walkFiles[Head(walkStack)] : IsDcm(f)} = {}
  /\ walkVisited' = Append(walkVisited, Head(walkStack))
  /\ walkStack' = Tail(walkStack)
  /\ UNCHANGED <<driverVars, asmVars, cleanVars, moreVars, walkParent, walkFiles, walkHanded>>

\* dcms = [...]; if not dcms: continue
WalkContinue ==
  /\ walkStack # <<>>
  /\ {f \in walkFiles[Head(walkStack)] : IsDcm(f)} = {}
  /\ WalkYield(FALSE)

\* dcms is not empty: the body goes on with the directory
WalkHand ==
  /\ walkStack # <<>>
  /\ {f \in walkFiles[Head(walkStack)] : IsDcm(f)} # {}
  /\ WalkYield(TRUE)

NextWalk == WalkContinue \/ WalkHand

SpecWalk == InitWalk /\ [][NextWalk]_vars

\* the endings that spell .dcm in some mix of cases
DcmEndings ==
  {<<".", d, c, m>> : d \in {"d", "D"}, c \in {"c", "C"}, m \in {"m", "M"}}

\* directory d directly contains a file whose name ends in .dcm, in any case
HasDcmFile(d) == \E f \in walkFiles[d] : \E e \in DcmEndings : EndsWith(f, e)

\* C18: no directory is yielded twice and only directories that directly
\* hold a .dcm file (in any case) are handed on; when the walk ends every
\* directory under the root was visited, those below directories without
\* such a file included, and every directory with such a file was handed on.
C18_WalkVisitsAll ==
  /\ \A j, k \in 1..Len(walkVisited) : walkVisited[j] = walkVisited[k] => j = k
  /\ \A j, k \in 1..Len(walkHanded) : walkHanded[j] = walkHanded[k] => j = k
  /\ \A j \in 1..Len(walkHanded) : HasDcmFile(walkHanded[j])
  /\ (walkParent # <<>> /\ walkStack = <<>>) =>
        /\ Range(walkVisited) = TreeDirs
        /\ Range(walkHanded) = {d \in TreeDirs : HasDcmFile(d)}

\* the walk is over; a directory with only other files was not handed on,
\* and a subdirectory of it that holds X.DCM was
C18_Witness ==
  /\ walkParent # <<>> /\ walkStack = <<>>
  /\ \E d \in TreeDirs : \E c \in DOMAIN walkParent :
       /\ walkParent[c] = d
       /\ walkFiles[d] # {} /\ d \notin Range(walkHanded)
       /\ <<"X", ".", "D", "C", "M">> \in walkFiles[c] /\ c \in Range(walkHanded)

\* ---- clean_pixel_data.py: the cleanup of results.json files ----------------

\* the most results.json files found, the largest --batch-size, CPU count
\* and --workers tried
MaxJsonFiles  == 4
MaxBatchArg   == 3
MaxCpus       == 9
MaxWorkersArg == 9

\* min(cpu_count(), 8)
POOL_CAP == 8

Min(a, b) == IF a < b THEN a ELSE b

\* the default with no cap: cpu_count()
ResolveWorkersUncapped(arg, cpu) == IF ~arg.given THEN cpu ELSE arg.n

\* if max_workers is None: max_workers = min(cpu_count(), 8)
ResolveWorkers(arg, cpu) == IF ~arg.given THEN Min(cpu, POOL_CAP) ELSE arg.n

\* the values i of range(0, len, size), size > 0, in order
BatchStarts(len, size) == [k \in 1..((len + size - 1) \div size) |-> (k - 1) * size]

\* slices one file too long: files[i:i + size + 1]
SplitOverlapping(files, size) ==
  LET starts == BatchStarts(Len(files), size)
  IN [k \in 1..Len(starts) |->
        SubSeq(files, starts[k] + 1, Min(starts[k] + size + 1, Len(files)))]

\* [json_files[i:i + batch_size] for i in range(0, len(json_files), batch_size)]
SplitBatches(files, size) ==
  LET starts == BatchStarts(Len(files), size)
  IN [k \in 1..Len(starts) |->
        SubSeq(files, starts[k] + 1, Min(starts[k] + size, Len(files)))]

InitClean ==
  /\ DriverIdle
  /\ AsmIdle
  /\ WalkIdle
  /\ MoreIdle
  /\ cpus \in 1..MaxCpus
  /\ max_workers \in {[given |-> FALSE, n |-> 0]}
                       \cup {[given |-> TRUE, n |-> w] : w \in 0..MaxWorkersArg}
  /\ batch_size \in 1..MaxBatchArg
  /\ \E found \in 0..MaxJsonFiles : json_files = [k \in 1..found |-> k]
  /\ cleanBatches = <<>>
  /\ poolSize = 0
  /\ task = <<>>
  /\ taskPos = <<>>
  /\ cleaned = [f \in Range(json_files) |-> 0]
  /\ touchedBy = [f \in Range(json_files) |-> {}]
  /\ cleanPc = "search"

\* glob found nothing: return
CleanNoFiles ==
  /\ cleanPc = "search"
  /\ json_files = <<>>
  /\ cleanPc' = "returned"
  /\ UNCHANGED <<driverVars, asmVars, walkVars, moreVars, cleanArgs,
                 cleanBatches, poolSize, task, taskPos, cleaned, touchedBy>>

\* the files are split into batches
CleanSplit ==
  /\ cleanPc = "search"
  /\ json_files # <<>>
  /\ cleanBatches' = SplitBatches(json_files, batch_size)
  /\ cleanPc' = "split"
  /\ UNCHANGED <<driverVars, asmVars, walkVars, moreVars, cleanArgs,
                 poolSize, task, taskPos, cleaned, touchedBy>>

\* ProcessPoolExecutor(max_workers=max_workers) and the submit of every batch
CleanSubmit ==
  /\ cleanPc = "split"
  /\ ResolveWorkers(max_workers, cpus) > 0
  /\ poolSize' = ResolveWorkers(max_workers, cpus)
  /\ task' = [b \in 1..Len(cleanBatches) |-> "queued"]
  /\ taskPos' = [b \in 1..Len(cleanBatches) |-> 0]
  /\ cleanPc' = "pool"
  /\ UNCHANGED <<driverVars, asmVars, walkVars, moreVars, cleanArgs,
                 cleanBatches, cleaned, touchedBy>>

\* ProcessPoolExecutor raises ValueError for max_workers <= 0
CleanPoolRaises ==
  /\ cleanPc = "split"
  /\ ResolveWorkers(max_workers, cpus) <= 0
  /\ cleanPc' = "raised"
  /\ UNCHANGED <<driverVars, asmVars, walkVars, moreVars, cleanArgs,
                 cleanBatches, poolSize, task, taskPos, cleaned, touchedBy>>

\* a free worker takes a queued batch
TaskStart(b) ==
  /\ cleanPc = "pool"
  /\ task[b] = "queued"
  /\ Cardinality({c \in DOMAIN task : task[c] = "running"}) < poolSize
  /\ task' = [task EXCEPT ![b] = "running"]
  /\ UNCHANGED <<driverVars, asmVars, walkVars, moreVars, cleanArgs,
                 cleanBatches, poolSize, taskPos, cleaned, touchedBy, cleanPc>>

\* process_files_batch: clean_pixel_data_from_json on the next file of the batch
TaskFile(b) ==
  /\ cleanPc = "pool"
  /\ task[b] = "running"
  /\ taskPos[b] < Len(cleanBatches[b])
  /\ LET f == cleanBatches[b][taskPos[b] + 1]
     IN /\ cleaned' = [cleaned EXCEPT ![f] = @ + 1]
        /\ touchedBy' = [touchedBy EXCEPT ![f] = @ \cup {b}]
  /\ taskPos' = [taskPos EXCEPT ![b] = @ + 1]
  /\ UNCHANGED <<driverVars, asmVars, walkVars, moreVars, cleanArgs,
                 cleanBatches, poolSize, task, cleanPc>>

\* process_files_batch returns its results
TaskReturn(b) ==
  /\ cleanPc = "pool"
  /\ task[b] = "running"
  /\ taskPos[b] = Len(cleanBatches[b])
  /\ task' = [task EXCEPT ![b] = "done"]
  /\ UNCHANGED <<driverVars, asmVars, walkVars, moreVars, cleanArgs,
                 cleanBatches, poolSize, taskPos, cleaned, touchedBy, cleanPc>>

\* for future in as_completed(...): the results of a batch are tallied
CleanCollect(b) ==
  /\ cleanPc = "pool"
  /\ task[b] = "done"
  /\ task' = [task EXCEPT ![b] = "collected"]
  /\ UNCHANGED <<driverVars, asmVars, walkVars, moreVars, cleanArgs,
                 cleanBatches, poolSize, taskPos, cleaned, touchedBy, cleanPc>>

\* every batch is tallied: the summary is printed
CleanSummary ==
  /\ cleanPc = "pool"
  /\ \A b \in DOMAIN task : task[b] = "collected"
  /\ cleanPc' = "returned"
  /\ UNCHANGED <<driverVars, asmVars, walkVars, moreVars, cleanArgs,
                 cleanBatches, poolSize, task, taskPos, cleaned, touchedBy>>

NextClean ==
  \/ CleanNoFiles
  \/ CleanSplit
  \/ CleanSubmit
  \/ CleanPoolRaises
  \/ \E b \in DOMAIN task : TaskStart(b)
  \/ \E b \in DOMAIN task : TaskFile(b)
  \/ \E b \in DOMAIN task : TaskReturn(b)
  \/ \E b \in DOMAIN task : CleanCollect(b)
  \/ CleanSummary

SpecClean == InitClean /\ [][NextClean]_vars

\* the batches, one after the other
RECURSIVE Flatten(_)
Flatten(bs) == IF bs = <<>> THEN <<>> ELSE Head(bs) \o Flatten(Tail(bs))

\* C19: once the files are split, the batches are not empty and put end to
\* end they are the list of files found, each file once; no file is ever read
\* or written by two tasks, no file is cleaned twice, and when the cleanup
\* returns every file found was cleaned exactly once.
C19_BatchesPartition ==
  /\ cleanPc \in {"split", "pool", "raised"} =>
        /\ Flatten(cleanBatches) = json_files
        /\ \A b \in DOMAIN cleanBatches : cleanBatches[b] # <<>>
  /\ \A f \in DOMAIN cleaned : cleaned[f] <= 1 /\ Cardinality(touchedBy[f]) <= 1
  /\ cleanPc = "returned" => \A f \in DOMAIN cleaned : cleaned[f] = 1

\* four files in batches of three were cleaned by two tasks, once each
C19_Witness ==
  /\ cleanPc = "returned"
  /\ Len(json_files) = 4 /\ batch_size = 3
  /\ Len(cleanBatches) = 2
  /\ touchedBy[3] = {1} /\ touchedBy[4] = {2}
  /\ \A f \in DOMAIN cleaned : cleaned[f] = 1

\* C20 as stated: the pool never has more than 8 workers, whatever the CPU
\* count and whatever --workers is.
C20_PoolAtMostCap == poolSize <= POOL_CAP

\* C20 as amended: when --workers is not given the pool never has more than
\* 8 workers, whatever the CPU count; a given --workers is the pool size.
C20_DefaultPoolAtMostCap ==
  cleanPc \in {"pool", "returned"} /\ json_files # <<>> =>
     /\ ~max_workers.given => poolSize <= POOL_CAP /\ poolSize <= cpus
     /\ max_workers.given => poolSize = max_workers.n

\* more CPUs than the cap and no --workers: the pool has 8 workers
C20_Witness ==
  /\ cleanPc = "pool"
  /\ ~max_workers.given
  /\ cpus > POOL_CAP
  /\ poolSize = POOL_CAP

\* ---- clean_pixel_data.py: what a run does to a results.json ----------------

\* the runs of the script tried
MaxPasses == 2

RemovedKeys == {"Pixel Data", "Sequence of Ultrasound Regions"}

\* the keys a metadata mapping may have, and the value under each
MetaKeys == RemovedKeys \cup {"Patient ID"}
Metadatas == UNION {[S -> {"v"}] : S \in SUBSET MetaKeys}

\* the values of a results.json: objects with a metadata mapping, objects
\* without one (one of them with a 'Pixel Data' key of its own) and a string
JsonValues ==
  {[isdict |-> TRUE, items |-> [metadata |-> m, predicted_view |-> "A4C"]] :
      m \in Metadatas}
  \cup {[isdict |-> TRUE, items |-> [error |-> "e"]],
        [isdict |-> TRUE, items |-> [k \in {"Pixel Data"} |-> "v"]],
        [isdict |-> FALSE, items |-> [text |-> "Pixel Data"]]}

JsonKeys == {"a.dcm", "b.dcm"}
JsonDocs == UNION {[S -> JsonValues] : S \in SUBSET JsonKeys}

\* isinstance(value, dict) and 'metadata' in value
HasMetadata(value) == value.isdict /\ "metadata" \in DOMAIN value.items

\* only 'Pixel Data' is deleted
CleanMetadataPixelOnly(metadata) ==
  Restrict(metadata, DOMAIN metadata \ {"Pixel Data"})

\* del metadata['Pixel Data']; del metadata["Sequence of Ultrasound Regions"]
CleanMetadata(metadata) == Restrict(metadata, DOMAIN metadata \ RemovedKeys)

\* the loop over data.items()
CleanData(data) ==
  [key \in DOMAIN data |->
     IF HasMetadata(data[key])
       THEN [data[key] EXCEPT !.items.metadata = CleanMetadata(@)]
       ELSE data[key]]

\* modified
Modified(data) == CleanData(data) # data

InitCleanFile ==
  /\ BaseIdle
  /\ FnIdle
  /\ PipeIdle
  /\ CliIdle
  /\ CapIdle
  /\ dry_run \in BOOLEAN
  /\ jsonFile \in {[parses |-> TRUE, data |-> doc] : doc \in JsonDocs}
                    \cup {[parses |-> FALSE, data |-> <<>>]}
  /\ jsonOrig = jsonFile
  /\ cleanReports = <<>>
  /\ rewrites = 0

\* a run of the script (with or without --dry-run): json.load raises, the
\* file is reported as an error
CleanFileError ==
  /\ Len(cleanReports) < MaxPasses
  /\ ~jsonFile.parses
  /\ cleanReports' = Append(cleanReports, [success |-> FALSE, modified |-> FALSE])
  /\ UNCHANGED <<restFile, dry_run, jsonFile, jsonOrig, rewrites>>

\* a run of the script: nothing to delete, the file is not opened for writing
CleanFileUnchanged ==
  /\ Len(cleanReports) < MaxPasses
  /\ jsonFile.parses
  /\ ~Modified(jsonFile.data)
  /\ cleanReports' = Append(cleanReports, [success |-> TRUE, modified |-> FALSE])
  /\ UNCHANGED <<restFile, dry_run, jsonFile, jsonOrig, rewrites>>

\* a run of the script: keys were deleted and the data is dumped to the file
CleanFileRewrite ==
  /\ Len(cleanReports) < MaxPasses
  /\ jsonFile.parses
  /\ Modified(jsonFile.data)
  /\ jsonFile' = [parses |-> TRUE, data |-> CleanData(jsonFile.data)]
  /\ rewrites' = rewrites + 1
  /\ cleanReports' = Append(cleanReports, [success |-> TRUE, modified |-> TRUE])
  /\ UNCHANGED <<restFile, dry_run, jsonOrig>>

NextCleanFile == CleanFileError \/ CleanFileUnchanged \/ CleanFileRewrite

SpecCleanFile == InitCleanFile /\ [][NextCleanFile]_vars

\* C21: with --dry-run the results.json is never modified.
C21_DryRunModifiesNothing == dry_run => (jsonFile = jsonOrig /\ rewrites = 0)

\* C29: after a pass over a file that parses, the entries are the same keys;
\* a metadata mapping has lost 'Pixel Data' and 'Sequence of Ultrasound
\* Regions' and kept every other key with its value; the other fields of the
\* entry, and the entries without a metadata mapping, are as before; a
\* second pass reports no change and the file is written at most once.
C29_CleanIdempotent ==
  (jsonOrig.parses /\ Len(cleanReports) >= 1) =>
     /\ jsonFile.parses
     /\ DOMAIN jsonFile.data = DOMAIN jsonOrig.data
     /\ \A key \in DOMAIN jsonOrig.data :
          LET old == jsonOrig.data[key]
              new == jsonFile.data[key]
          IN IF old.isdict /\ "metadata" \in DOMAIN old.items
               THEN /\ new.isdict
                    /\ DOMAIN new.items = DOMAIN old.items
                    /\ new.items.predicted_view = old.items.predicted_view
                    /\ DOMAIN new.items.metadata = DOMAIN old.items.metadata \ RemovedKeys
                    /\ \A m \in DOMAIN new.items.metadata :
                         new.items.metadata[m] = old.items.metadata[m]
               ELSE new = old
     /\ rewrites <= 1
     /\ Len(cleanReports) >= 2 =>
          /\ cleanReports[2] = [success |-> TRUE, modified |-> FALSE]
          /\ (rewrites = 1 <=> cleanReports[1].modified)

\* two passes over a file with both keys in one entry and an entry with no
\* metadata: the first rewrote the file, the second did not
C29_Witness ==
  /\ Len(cleanReports) = 2
  /\ cleanReports[1].modified /\ ~cleanReports[2].modified
  /\ rewrites = 1
  /\ DOMAIN jsonOrig.data = JsonKeys
  /\ HasMetadata(jsonOrig.data["a.dcm"])
  /\ DOMAIN jsonOrig.data["a.dcm"].items.metadata = MetaKeys
  /\ ~HasMetadata(jsonOrig.data["b.dcm"])
  /\ DOMAIN jsonFile.data["a.dcm"].items.metadata = {"Patient ID"}

\* ---- echo_infer/pipeline.py: _generate_output_filename ----------------------

\* the deepest directory nesting of a DICOM path tried
MaxDepth == 4

DirNames  == {"p10", "p10002221", "s94106955"}
FileNames == {"x.dcm", "y.dcm"}

\* Path(name).stem
Stem == [name \in FileNames |-> IF name = "x.dcm" THEN "x" ELSE "y"]

\* the directory parts up to n deep
DirPaths(n) == UNION {[1..k -> DirNames] : k \in 0..n}

\* input is a leading part of path
IsUnder(path, input) ==
  Len(input) <= Len(path) /\ SubSeq(path, 1, Len(input)) = input

\* dicom_path_obj.relative_to(input_dir_obj).parts, which is there when
\* the path is under the directory
RelativeTo(path, input) == SubSeq(path, Len(input) + 1, Len(path))

\* sep.join(parts)
RECURSIVE Join(_, _)
Join(sep, parts) ==
  IF parts = <<>> THEN ""
  ELSE IF Len(parts) = 1 THEN parts[1]
  ELSE parts[1] \o sep \o Join(sep, Tail(parts))

\* parts[:-1]
ButLast(parts) == SubSeq(parts, 1, Len(parts) - 1)

\* the name made of all the parts, the file name included
GenerateWithFileName(path, input) ==
  IF IsUnder(path, input)
    THEN LET parts == RelativeTo(path, input)
         IN IF parts = <<>> THEN "result.json" ELSE Join("_", parts) \o ".json"
    ELSE Stem[path[Len(path)]] \o ".json"

\* _generate_output_filename(dicom_path, input_dir)
GenerateOutputFilename(path, input) ==
  IF IsUnder(path, input)
    THEN LET parts == RelativeTo(path, input)
         IN IF Len(parts) >= 3
              THEN Join("_", ButLast(parts)) \o ".json"
              ELSE LET dir_parts == IF Len(parts) > 1 THEN ButLast(parts) ELSE parts
                   IN IF dir_parts # <<>>
                        THEN Join("_", dir_parts) \o ".json"
                        ELSE "result.json"
    ELSE Stem[path[Len(path)]] \o ".json"

InitFilename ==
  /\ BaseIdle
  /\ FileIdle
  /\ PipeIdle
  /\ CliIdle
  /\ CapIdle
  /\ dicom_path \in {dirs \o <<name>> : dirs \in DirPaths(MaxDepth), name \in FileNames}
  /\ input_dir \in DirPaths(2) \cup {dicom_path}
  /\ output_name = ""
  /\ fnPc = "call"

GenerateCall ==
  /\ fnPc = "call"
  /\ output_name' = GenerateOutputFilename(dicom_path, input_dir)
  /\ fnPc' = "returned"
  /\ UNCHANGED <<restFn, dicom_path, input_dir>>

NextFilename == GenerateCall

SpecFilename == InitFilename /\ [][NextFilename]_vars

\* the directory names of a relative path, one after the other with '_'
\* between them
RECURSIVE Underscored(_)
Underscored(dirs) ==
  IF Len(dirs) = 1 THEN dirs[1]
  ELSE Underscored(ButLast(dirs)) \o "_" \o dirs[Len(dirs)]

\* C22: for a DICOM path under the input directory with three relative
\* components or more, the name returned is the relative directory
\* components joined by '_' and then '.json'.
C22_FilenameFromDirectories ==
  (/\ fnPc = "returned"
   /\ IsUnder(dicom_path, input_dir)
   /\ Len(dicom_path) - Len(input_dir) >= 3) =>
     LET dirs == SubSeq(dicom_path, Len(input_dir) + 1, Len(dicom_path) - 1)
     IN output_name = Underscored(dirs) \o ".json"

\* p10/p10002221/s94106955/x.dcm under the input directory gave
\* p10_p10002221_s94106955.json
C22_Witness ==
  /\ fnPc = "returned"
  /\ input_dir = <<"p10">>
  /\ dicom_path = <<"p10", "p10", "p10002221", "s94106955", "x.dcm">>
  /\ output_name = "p10_p10002221_s94106955.json"

\* ---- echo_infer/pipeline.py: run ------------------------------------------

\* the most files process_dicoms returns
MaxVideos == 3

\* the input directory of the run and the DICOM files that may be under it
PipeInputDir == <<"p10">>
PipePaths ==
  {PipeInputDir \o dirs \o <<name>> :
     dirs \in {<<"p10", "p10002221", "s94106955">>,
               <<"p10", "p10002221", "p10">>,
               <<"s94106955">>},
     name \in FileNames}

\* the sequences of up to n different paths
DistinctSeqs(n) ==
  UNION {{q \in [1..k -> PipePaths] : \A a, b \in 1..k : q[a] = q[b] => a = b} :
           k \in 0..n}

\* result_data
ResultData(filename) == [views |-> <<"A4C">>, source_file |-> filename]

\* what save_results({filename: result_data}, ...) puts in the file
SavedDoc(filename) == [key |-> filename, value |-> ResultData(filename)]

InitPipeline ==
  /\ BaseIdle
  /\ FileIdle
  /\ FnIdle
  /\ CliIdle
  /\ CapIdle
  /\ video_dict \in DistinctSeqs(MaxVideos)
  /\ pipeI = 0
  /\ outputDir = <<>>
  /\ runResults = <<>>
  /\ pipePc = "process"

\* if not video_dict: return {}
PipeNoVideos ==
  /\ pipePc = "process"
  /\ video_dict = <<>>
  /\ pipePc' = "returned"
  /\ UNCHANGED <<restPipe, video_dict, pipeI, outputDir, runResults>>

\* ensure_output_dir(output_dir) and the start of the loop
PipeBegin ==
  /\ pipePc = "process"
  /\ video_dict # <<>>
  /\ pipePc' = "loop"
  /\ UNCHANGED <<restPipe, video_dict, pipeI, outputDir, runResults>>

\* Path(output_dir) / _generate_output_filename(filename, input_dir)
OutputFile(filename) == GenerateOutputFilename(filename, PipeInputDir)

\* one file: the views are predicted, the result is saved in its output file
\* (opened with 'w') and stored in results
PipeFileOk ==
  /\ pipePc = "loop"
  /\ pipeI < Len(video_dict)
  /\ LET filename == video_dict[pipeI + 1]
         name == OutputFile(filename)
     IN /\ outputDir' = [n \in DOMAIN outputDir \cup {name} |->
                           IF n = name THEN SavedDoc(filename) ELSE outputDir[n]]
        /\ runResults' = [f \in DOMAIN runResults \cup {filename} |->
                            IF f = filename THEN ResultData(filename) ELSE runResults[f]]
  /\ pipeI' = pipeI + 1
  /\ UNCHANGED <<restPipe, video_dict, pipePc>>

\* one file: get_view_predictions raises; except Exception stores an error
PipeFileError ==
  /\ pipePc = "loop"
  /\ pipeI < Len(video_dict)
  /\ LET filename == video_dict[pipeI + 1]
     IN runResults' = [f \in DOMAIN runResults \cup {filename} |->
                         IF f = filename
                           THEN [error |-> "e", source_file |-> filename]
                           ELSE runResults[f]]
  /\ pipeI' = pipeI + 1
  /\ UNCHANGED <<restPipe, video_dict, outputDir, pipePc>>

\* the loop is over: return results
PipeReturn ==
  /\ pipePc = "loop"
  /\ pipeI = Len(video_dict)
  /\ pipePc' = "returned"
  /\ UNCHANGED <<restPipe, video_dict, pipeI, outputDir, runResults>>

NextPipeline ==
  PipeNoVideos \/ PipeBegin \/ PipeFileOk \/ PipeFileError \/ PipeReturn

SpecPipeline == InitPipeline /\ [][NextPipeline]_vars

\* C27: when run has returned, the output directory holds the result of
\* every input file whose entry in the returned dictionary has no 'error'.
C27_EveryResultKept ==
  pipePc = "returned" =>
     \A filename \in DOMAIN runResults :
        "error" \notin DOMAIN runResults[filename] =>
           \E name \in DOMAIN outputDir : outputDir[name] = SavedDoc(filename)

\* ---- echo_infer/cli.py: the run command ------------------------------------

\* the most files a run of the pipeline reports
MaxProcessed == 2

\* get_default_config()
DefaultConfig == [source |-> "defaults", input_dir |-> "data/raw",
                  output_dir |-> "outputs/", level |-> "INFO"]

\* load_config(config): what the YAML file holds
FileConfig == [source |-> "file", input_dir |-> "data/in",
               output_dir |-> "out/", level |-> "WARNING"]

\* the overrides of --input, --output and --verbose
ApplyOverrides(c, args) ==
  [source |-> c.source,
   input_dir  |-> IF args.input THEN "cli/in" ELSE c.input_dir,
   output_dir |-> IF args.output THEN "cli/out" ELSE c.output_dir,
   level      |-> IF args.verbose THEN "DEBUG" ELSE c.level]

InitCli ==
  /\ BaseIdle
  /\ FileIdle
  /\ FnIdle
  /\ PipeIdle
  /\ CapIdle
  /\ cliArgs \in [config_exists : BOOLEAN, input : BOOLEAN, output : BOOLEAN,
                  verbose : BOOLEAN]
  /\ cfg = <<>>
  /\ stdout = <<>>
  /\ inferenceCalls = 0
  /\ exitCode = -1
  /\ cliPc = "load"

\* typer.echo of a line; files is the count the line reports
Echo(text, files) == [text |-> text, files |-> files]

\* the command ends with raise typer.Exit(code) or by returning
CliExit(code) == exitCode' = code /\ cliPc' = "exited"

\* Path(config).exists(): cfg = load_config(config)
CliLoadConfig ==
  /\ cliPc = "load"
  /\ cliArgs.config_exists
  /\ cfg' = FileConfig
  /\ cliPc' = "overrides"
  /\ UNCHANGED <<restCli, cliArgs, stdout, inferenceCalls, exitCode>>

\* load_config raises (the YAML does not parse): exit 1
CliLoadConfigRaises ==
  /\ cliPc = "load"
  /\ cliArgs.config_exists
  /\ stdout' = Append(stdout, Echo("Error loading config", 0))
  /\ CliExit(1)
  /\ UNCHANGED <<restCli, cliArgs, cfg, inferenceCalls>>

\* the file is not there: a notice, and cfg = get_default_config()
CliDefaultConfig ==
  /\ cliPc = "load"
  /\ ~cliArgs.config_exists
  /\ stdout' = Append(stdout, Echo("Config file not found. Using defaults.", 0))
  /\ cfg' = DefaultConfig
  /\ cliPc' = "overrides"
  /\ UNCHANGED <<restCli, cliArgs, inferenceCalls, exitCode>>

\* the CLI overrides are applied and logging is set up
CliOverrides ==
  /\ cliPc = "overrides"
  /\ cfg' = ApplyOverrides(cfg, cliArgs)
  /\ cliPc' = "run"
  /\ UNCHANGED <<restCli, cliArgs, stdout, inferenceCalls, exitCode>>

\* _get_run() raises (the import of the pipeline fails): exit 1
CliImportRaises ==
  /\ cliPc = "run"
  /\ stdout' = Append(stdout, Echo("Error during inference", 0))
  /\ CliExit(1)
  /\ UNCHANGED <<restCli, cliArgs, cfg, inferenceCalls>>

\* run_func(cfg) raises: exit 1
CliRunRaises ==
  /\ cliPc = "run"
  /\ inferenceCalls' = inferenceCalls + 1
  /\ stdout' = Append(stdout, Echo("Error during inference", 0))
  /\ CliExit(1)
  /\ UNCHANGED <<restCli, cliArgs, cfg>>

\* run_func(cfg) returns the results of n files: the command returns
CliRunOk ==
  /\ cliPc = "run"
  /\ inferenceCalls' = inferenceCalls + 1
  /\ \E n \in 0..MaxProcessed :
       stdout' = Append(stdout, Echo("Successfully processed files", n))
  /\ CliExit(0)
  /\ UNCHANGED <<restCli, cliArgs, cfg>>

NextCli ==
  \/ CliLoadConfig \/ CliLoadConfigRaises \/ CliDefaultConfig \/ CliOverrides
  \/ CliImportRaises \/ CliRunRaises \/ CliRunOk

SpecCli == InitCli /\ [][NextCli]_vars

\* the lines of stdout that report an error
ErrorLines == {"Error loading config", "Error during inference"}

\* C23: the run command given a config path that does not exist exits with
\* status 1, has printed an error and has not run the inference.
C23_MissingConfigExitsOne ==
  (cliPc = "exited" /\ ~cliArgs.config_exists) =>
     /\ exitCode = 1
     /\ \E n \in 1..Len(stdout) : stdout[n].text \in ErrorLines
     /\ inferenceCalls = 0

\* ---- echo_qa/core/processor.py: process_dataset ----------------------------

\* the most entries of an input file, the largest batch_size and start_idx
\* and the calls of process_dataset tried
MaxEntries   == 11
MaxCapBatch  == 2
MaxStartIdx  == 1
MaxCapRuns   == 2

\* num_entries: int = 10
NUM_ENTRIES == 10

\* the characters of the file names, with their code points
Code ==
  [c \in {".", "0", "1", "2", "3", "4", "5", "6", "7", "8", "9", "_",
          "a", "b", "c", "d", "e", "h", "i", "j", "l", "m", "n", "o", "p",
          "s", "t", "u", "v"} |->
     CASE c = "." -> 46
       [] c = "0" -> 48 [] c = "1" -> 49 [] c = "2" -> 50 [] c = "3" -> 51
       [] c = "4" -> 52 [] c = "5" -> 53 [] c = "6" -> 54 [] c = "7" -> 55
       [] c = "8" -> 56 [] c = "9" -> 57
       [] c = "_" -> 95
       [] c = "a" -> 97 [] c = "b" -> 98 [] c = "c" -> 99 [] c = "d" -> 100
       [] c = "e" -> 101 [] c = "h" -> 104 [] c = "i" -> 105 [] c = "j" -> 106
       [] c = "l" -> 108 [] c = "m" -> 109 [] c = "n" -> 110 [] c = "o" -> 111
       [] c = "p" -> 112 [] c = "s" -> 115 [] c = "t" -> 116 [] c = "u" -> 117
       [] c = "v" -> 118]

DigitChars == <<"0", "1", "2", "3", "4", "5", "6", "7", "8", "9">>

\* str(n) for n >= 0, as the f-string writes it
RECURSIVE Decimal(_)
Decimal(n) ==
  IF n < 10 THEN <<DigitChars[n + 1]>>
  ELSE Decimal(n \div 10) \o <<DigitChars[(n % 10) + 1]>>

DotJson == <<".", "j", "s", "o", "n">>

\* f"batch_{batch_start}_{batch_end - 1}.json"
BatchFileName(first, last) ==
  <<"b", "a", "t", "c", "h", "_">> \o Decimal(first) \o <<"_">> \o Decimal(last)
     \o DotJson

\* f"combined_output_{data_str}.json", data_str = "val"
CombinedFileName ==
  <<"c", "o", "m", "b", "i", "n", "e", "d", "_", "o", "u", "t", "p", "u", "t",
    "_", "v", "a", "l">> \o DotJson

\* a < b as Python compares the names
RECURSIVE NameLess(_, _)
NameLess(a, b) ==
  IF a = <<>> THEN b # <<>>
  ELSE IF b = <<>> THEN FALSE
  ELSE IF Code[Head(a)] # Code[Head(b)] THEN Code[Head(a)] < Code[Head(b)]
  ELSE NameLess(Tail(a), Tail(b))

\* sorted(names)
RECURSIVE SortedNames(_)
SortedNames(S) ==
  IF S = {} THEN <<>>
  ELSE LET least == CHOOSE a \in S : \A b \in S \ {a} : NameLess(a, b)
       IN <<least>> \o SortedNames(S \ {least})

\* process_entry(data[n]): an entry without conversations comes back with
\* an error flag
ProcessedEntry(n) ==
  IF n \in capData.bad
    THEN [id |-> n, error |-> "KeyError"]
    ELSE [id |-> n, caption |-> "c", answers |-> "a"]

\* total_entries
TotalEntries ==
  IF capArgs.process_all THEN capData.len ELSE Min(NUM_ENTRIES, capData.len)

\* process_batch(data, first, last)
ProcessBatch(first, last) == [k \in 1..(last - first) |-> ProcessedEntry(first + k - 1)]

\* the lists of the files put end to end in the order of the names
RECURSIVE Combined(_, _)
Combined(ordered, files) ==
  IF ordered = <<>> THEN <<>>
  ELSE files[Head(ordered)] \o Combined(Tail(ordered), files)

\* save_json(data, file)
Saved(files, name, data) ==
  [n \in DOMAIN files \cup {name} |-> IF n = name THEN data ELSE files[n]]

InitCaption ==
  /\ BaseIdle
  /\ FileIdle
  /\ FnIdle
  /\ PipeIdle
  /\ CliIdle
  /\ \E len \in 0..MaxEntries :
       \E bad \in {B \in SUBSET (0..(len - 1)) : Cardinality(B) <= 1} :
          capData = [len |-> len, bad |-> bad]
  /\ capArgs = [batch_size |-> 1, start_idx |-> 0, process_all |-> TRUE]
  /\ batch_start = 0
  /\ capFiles = <<>>
  /\ capRuns = 0
  /\ capPc = "ready"

\* process_dataset is called: the data is loaded and the range is set
CapStart ==
  /\ capPc = "ready"
  /\ capRuns < MaxCapRuns
  /\ \E size \in 1..MaxCapBatch, start \in 0..MaxStartIdx, all \in BOOLEAN :
       /\ capArgs' = [batch_size |-> size, start_idx |-> start, process_all |-> all]
       /\ batch_start' = start
  /\ capPc' = "batches"
  /\ UNCHANGED <<restCap, capData, capFiles, capRuns>>

\* one batch is processed and saved in its batch file
CapBatch ==
  /\ capPc = "batches"
  /\ batch_start < TotalEntries
  /\ LET batch_end == Min(batch_start + capArgs.batch_size, TotalEntries)
     IN capFiles' = Saved(capFiles, BatchFileName(batch_start, batch_end - 1),
                          ProcessBatch(batch_start, batch_end))
  /\ batch_start' = batch_start + capArgs.batch_size
  /\ UNCHANGED <<restCap, capData, capArgs, capRuns, capPc>>

\* _combine_batches: every .json file of output_dir, in sorted order, is
\* loaded and the lists are saved as the combined file; the call returns
CapCombine ==
  /\ capPc = "batches"
  /\ batch_start >= TotalEntries
  /\ capFiles' = Saved(capFiles, CombinedFileName,
                       Combined(SortedNames(DOMAIN capFiles), capFiles))
  /\ capRuns' = capRuns + 1
  /\ capPc' = "ready"
  /\ UNCHANGED <<restCap, capData, capArgs, batch_start>>

NextCaption == CapStart \/ CapBatch \/ CapCombine

SpecCaption == InitCaption /\ [][NextCaption]_vars

\* C30: when process_dataset has returned, the combined file holds the
\* entries start_idx .. total_entries - 1 as processed, each once and in the
\* order of the input, on the first call and on a later one.
C30_CombinedOnceInOrder ==
  (capPc = "ready" /\ capRuns >= 1) =>
     /\ CombinedFileName \in DOMAIN capFiles
     /\ capFiles[CombinedFileName] =
          [k \in 1..(IF TotalEntries > capArgs.start_idx
                       THEN TotalEntries - capArgs.start_idx ELSE 0) |->
             ProcessedEntry(capArgs.start_idx + k - 1)]

=============================================================================
